---- MODULE Spec2Model ----
(***************************************************************************)
(* The vehicle feed hook useVehiclesWebSocket (frontend/src/hooks) and the *)
(* live map table it feeds (frontend/src/pages): one hook instance, the    *)
(* WebSocket objects it has created, the browser's timers and the events   *)
(* the browser dispatches to the hook's callbacks.                         *)
(***************************************************************************)
EXTENDS Integers, Sequences, FiniteSets, TLC

\* ------------------------------------------------------------- bounds
MaxSockets == 4      \* WebSocket objects created in one run
MaxSubs == 2         \* calls of subscribeToBounds in one run
MaxFrames == 3       \* inbound frames delivered in one run
MaxBatch == 2        \* records in one vehicle_updates or REST batch
MaxFeedFrames == 1   \* inbound frames in one run of FeedSpec, TrackFeedSpec
MaxTableFrames == 2  \* inbound frames delivered in one run of TableSpec

\* ------------------------------------------------------- value domains
\* WebSocket.readyState
CONNECTING == "CONNECTING"
OPEN == "OPEN"
CLOSING == "CLOSING"
CLOSED == "CLOSED"

\* MapBounds values <<north, south, east, west>> (two distinct viewports);
\* null is the empty slot
B1 == <<2, 1, 2, 1>>
B2 == <<4, 3, 4, 3>>
MapBounds == {B1, B2}
null == <<>>
NoTimer == "none"

\* VehiclePosition records, reduced to the fields the hook and the table read
TripIds == {"T1", "T2"}
VehiclePosition == [trip_id : TripIds, vehicle_id : {"V1"}, latitude : {1, 2}]

\* the ts member of a vehicle_updates message, as a number
Stamps == {1, 2}

\* VehiclePosition[] values: the lists of at most MaxBatch records
Batches == UNION {[1..k -> VehiclePosition] : k \in 0..MaxBatch}

\* Inbound frames: event.data before JSON.parse.  json = FALSE is text that
\* JSON.parse rejects; hasVehicles = FALSE is a vehicle_updates message with
\* no vehicles member.
VehicleUpdates(vs, ts) ==
    [json |-> TRUE, type |-> "vehicle_updates", hasVehicles |-> TRUE,
     vehicles |-> vs, vehicle_count |-> 0, ts |-> ts]
CountFrame(t, n) ==
    [json |-> TRUE, type |-> t, hasVehicles |-> FALSE,
     vehicles |-> <<>>, vehicle_count |-> n, ts |-> 0]
CorruptFrame ==
    [json |-> FALSE, type |-> "", hasVehicles |-> FALSE,
     vehicles |-> <<>>, vehicle_count |-> 0, ts |-> 0]
Frames ==
    {VehicleUpdates(vs, ts) : vs \in Batches, ts \in Stamps}
        \cup {CountFrame("connected", 2), CountFrame("bounds_set", 1),
              CountFrame("pong", 0), CountFrame("other", 0),
              CountFrame("vehicle_updates", 0), CorruptFrame}

\* ---------------------------------------------------------------- state
VARIABLES
    phase,          \* "new" | "mounted" | "unmounted": the mount effect's life
    autoConnect,    \* the autoConnect option of the current effect run
    socks,          \* every WebSocket created, in order: [readyState]
    wsRef,          \* wsRef.current: index into socks, 0 = null
    timers,         \* ids of the setTimeout timers still pending
    timerRef,       \* reconnectTimeoutRef.current: 0 = undefined
    connected,      \* useState connected
    error,          \* useState error (TRUE = a message is set)
    pendingBounds,  \* pendingBoundsRef.current
    vehicleCount,   \* useState vehicleCount
    lastUpdate,     \* useState lastUpdate: 0 = null, else the frame's ordinal
    vehicles,       \* LiveMap's table: trip_id -> VehiclePosition
    sent,           \* frames handed to ws.send: [sock, msg]
    reqs,           \* history: the bounds passed to subscribeToBounds
    latestSent,     \* history: the latest request has been sent
    tornDown,       \* history: the effect cleanup has run
    serverUp,       \* environment: the server accepts connections from now on
    nframes,        \* history: inbound frames delivered
    lastTs,         \* history: ts of the batch applied last, 0 before any
    flog,           \* history: Kind of every inbound frame, in arrival order
    latest,         \* history: trip_id -> the record pushed last for it
    lastBatchIds,   \* history: the trip_ids of the batch pushed last
    mapReady,       \* LiveMap useState mapReady
    dirty,          \* LiveMap: the marker effect is scheduled
    markers,        \* LiveMap markersRef: trip_id -> [born, latLng, popup]
    layers,         \* the map: trip_id -> number of its markers on the map
    made,           \* history: L.marker objects created so far
    shown,          \* the vehicles value of the last committed render
    rest,           \* GET /api/vehicles: "pending" | "loaded" | "failed"
    page,           \* the page that uses the hook: "map" | "tracking"
    trackingId,     \* LiveTracking: the trackingId route parameter
    subDue,         \* LiveTracking: the subscribe effect of a render with
                    \* connected = true is committed and has not run yet
    vehicle,        \* LiveTracking: the tracked vehicle, null before any
    noVehicleData,   \* LiveTracking: the no-data flag
    query,          \* SearchInput: useState query
    results,        \* SearchInput: useState results, a list of stops
    isOpen,         \* SearchInput: useState isOpen
    loading,        \* SearchInput: useState loading
    debounce,       \* the pending debounce timer: the query it captured
    inflight        \* the queries of the stopsApi.search calls not settled

vars == <<phase, autoConnect, socks, wsRef, timers, timerRef, connected, error,
          pendingBounds, vehicleCount, lastUpdate, vehicles, sent, reqs,
          latestSent, tornDown, serverUp, nframes, flog, latest,
          lastBatchIds, lastTs, mapReady, dirty, markers, layers, made, shown,
          rest, page, trackingId, subDue, vehicle, noVehicleData, query,
          results, isOpen, loading, debounce, inflight>>

connVars == <<socks, wsRef, timers>>
feedVars == <<vehicleCount, lastUpdate, vehicles, nframes, flog, latest,
              lastBatchIds, lastTs, dirty>>
pageVars == <<mapReady, markers, layers, made, shown, rest>>
hookVars == <<phase, autoConnect, socks, wsRef, timers, timerRef, connected,
              error, pendingBounds, sent, reqs, latestSent, tornDown, serverUp>>
subVars == <<pendingBounds, sent, reqs, latestSent>>
trackVars == <<page, trackingId, subDue, vehicle, noVehicleData>>
searchVars == <<query, results, isOpen, loading, debounce, inflight>>

Init ==
    /\ phase = "new"
    /\ autoConnect = TRUE
    /\ socks = <<>>
    /\ wsRef = 0
    /\ timers = {}
    /\ timerRef = 0
    /\ connected = FALSE
    /\ error = FALSE
    /\ pendingBounds = null
    /\ vehicleCount = 0
    /\ lastUpdate = 0
    /\ vehicles = <<>>
    /\ sent = <<>>
    /\ reqs = <<>>
    /\ latestSent = FALSE
    /\ tornDown = FALSE
    /\ serverUp = FALSE
    /\ nframes = 0
    /\ lastTs = 0
    /\ flog = <<>>
    /\ latest = <<>>
    /\ lastBatchIds = {}
    /\ mapReady = FALSE
    /\ dirty = FALSE
    /\ markers = <<>>
    /\ layers = [t \in TripIds |-> 0]
    /\ made = 0
    /\ shown = <<>>
    /\ rest = "pending"
    /\ page = "map"
    /\ trackingId = ""
    /\ subDue = FALSE
    /\ vehicle = null
    /\ noVehicleData = FALSE
    /\ query = ""
    /\ results = <<>>
    /\ isOpen = FALSE
    /\ loading = FALSE
    /\ debounce = NoTimer
    /\ inflight = {}

\* The refs connect() and the cleanup work on, as one value
Hook == [socks |-> socks, wsRef |-> wsRef, timers |-> timers]

IsOpen(h) == h.wsRef # 0 /\ h.socks[h.wsRef].readyState = OPEN

\* clearTimeout(reconnectTimeoutRef.current) behind its truthiness test
clearReconnect(h) ==
    IF timerRef # 0 THEN [h EXCEPT !.timers = @ \ {timerRef}] ELSE h

\* ---------------------------------------------------------- operations
\* connect(): returns when the current socket is OPEN; otherwise clears the
\* tracked timer, creates a WebSocket and stores it in wsRef
connect(h) ==
    IF IsOpen(h)
    THEN h
    ELSE [clearReconnect(h) EXCEPT
            !.socks = Append(@, [readyState |-> CONNECTING]),
            !.wsRef = Len(h.socks) + 1]

\* connect() can run within the socket bound
CanConnect(h) == IsOpen(h) \/ Len(h.socks) < MaxSockets

\* WebSocket.close(): starts the closing handshake of a socket not yet closed
wsClose(rs) == IF rs \in {CONNECTING, OPEN} THEN CLOSING ELSE rs

\* the mount effect's cleanup
cleanup(h) ==
    LET h1 == clearReconnect(h)
    IN  IF h1.wsRef # 0
        THEN [h1 EXCEPT !.socks[h1.wsRef].readyState = wsClose(@), !.wsRef = 0]
        ELSE h1

\* Variant of sendBounds that skips bounds equal to the ones sent last
sendBoundsDedup(h, snt, b) ==
    IF IsOpen(h) /\ (snt = <<>> \/ snt[Len(snt)].msg.bounds # b)
    THEN Append(snt, [sock |-> h.wsRef,
                      msg |-> [type |-> "subscribe_bounds", bounds |-> b]])
    ELSE snt

\* sendBounds(bounds): ws.send on the current socket when it is OPEN
sendBounds(h, snt, b) ==
    IF IsOpen(h)
    THEN Append(snt, [sock |-> h.wsRef,
                      msg |-> [type |-> "subscribe_bounds", bounds |-> b]])
    ELSE snt

\* Variant of handleVehicleUpdates that keeps the record a trip_id already has
handleVehicleUpdatesKeepFirst(prev, updates) ==
    [t \in DOMAIN prev \cup {updates[i].trip_id : i \in DOMAIN updates} |->
        IF t \in DOMAIN prev
        THEN prev[t]
        ELSE updates[CHOOSE i \in DOMAIN updates :
                        /\ updates[i].trip_id = t
                        /\ \A j \in DOMAIN updates :
                              updates[j].trip_id = t => i <= j]]

\* Variant of handleVehicleUpdates that starts from an empty Map
handleVehicleUpdatesReplace(prev, updates) ==
    [t \in {updates[i].trip_id : i \in DOMAIN updates} |->
        updates[CHOOSE i \in DOMAIN updates :
                   /\ updates[i].trip_id = t
                   /\ \A j \in DOMAIN updates :
                         updates[j].trip_id = t => j <= i]]

\* Variant of handleVehicleUpdates that builds on the vehicles value of the
\* last render instead of the updater's argument
handleVehicleUpdatesStale(prev, updates) ==
    [t \in DOMAIN shown \cup {updates[i].trip_id : i \in DOMAIN updates} |->
        IF t \in {updates[i].trip_id : i \in DOMAIN updates}
        THEN updates[CHOOSE i \in DOMAIN updates :
                        /\ updates[i].trip_id = t
                        /\ \A j \in DOMAIN updates :
                              updates[j].trip_id = t => j <= i]
        ELSE shown[t]]

\* LiveMap.handleVehicleUpdates: next.set(v.trip_id, v) for each update
RECURSIVE handleVehicleUpdates(_, _)
handleVehicleUpdates(prev, updates) ==
    IF updates = <<>>
    THEN prev
    ELSE LET v == Head(updates)
             next == [k \in DOMAIN prev \cup {v.trip_id} |->
                         IF k = v.trip_id THEN v ELSE prev[k]]
         IN  handleVehicleUpdates(next, Tail(updates))

\* ------------------------------------------------------------- actions
SetHook(h) ==
    /\ socks' = h.socks
    /\ wsRef' = h.wsRef
    /\ timers' = h.timers

\* first run of the mount effect
Mount(ac) ==
    /\ phase = "new"
    /\ ac => CanConnect(Hook)
    /\ phase' = "mounted"
    /\ autoConnect' = ac
    /\ SetHook(IF ac THEN connect(Hook) ELSE Hook)
    /\ UNCHANGED <<timerRef, connected, error, tornDown, serverUp>>
    /\ UNCHANGED feedVars
    /\ UNCHANGED subVars
    /\ UNCHANGED pageVars
    /\ UNCHANGED <<trackVars, searchVars>>

\* the autoConnect dependency changed: cleanup, then the effect again
Rerun(ac) ==
    /\ phase = "mounted"
    /\ ac # autoConnect
    /\ ac => CanConnect(cleanup(Hook))
    /\ autoConnect' = ac
    /\ tornDown' = TRUE
    /\ SetHook(IF ac THEN connect(cleanup(Hook)) ELSE cleanup(Hook))
    /\ UNCHANGED <<phase, timerRef, connected, error, serverUp>>
    /\ UNCHANGED feedVars
    /\ UNCHANGED subVars
    /\ UNCHANGED pageVars
    /\ UNCHANGED <<trackVars, searchVars>>

\* the component unmounts: the cleanup alone
Unmount ==
    /\ phase = "mounted"
    /\ phase' = "unmounted"
    /\ tornDown' = TRUE
    /\ SetHook(cleanup(Hook))
    /\ UNCHANGED <<autoConnect, timerRef, connected, error, serverUp>>
    /\ UNCHANGED feedVars
    /\ UNCHANGED subVars
    /\ UNCHANGED pageVars
    /\ UNCHANGED <<trackVars, searchVars>>

\* ws.onopen of socket s
OnOpen(s) ==
    /\ s \in DOMAIN socks
    /\ socks[s].readyState = CONNECTING
    /\ socks' = [socks EXCEPT ![s].readyState = OPEN]
    /\ connected' = TRUE
    /\ error' = FALSE
    /\ IF pendingBounds # null
       THEN /\ sent' = sendBounds([Hook EXCEPT !.socks = socks'], sent,
                                  pendingBounds)
            /\ pendingBounds' = null
            /\ latestSent' = (latestSent \/ Len(sent') > Len(sent))
       ELSE UNCHANGED <<sent, pendingBounds, latestSent>>
    /\ UNCHANGED <<phase, autoConnect, wsRef, timers, timerRef, reqs,
                   tornDown, serverUp>>
    /\ UNCHANGED feedVars
    /\ UNCHANGED pageVars
    /\ subDue' = (subDue \/ (page = "tracking" /\ ~connected))
    /\ UNCHANGED <<page, trackingId, vehicle, noVehicleData>>
    /\ UNCHANGED searchVars

\* Variant of ws.onclose that keeps the handle of the dead socket
OnCloseKeepsHandle(s) ==
    /\ s \in DOMAIN socks
    /\ socks[s].readyState # CLOSED
    /\ (socks[s].readyState = CONNECTING) => ~serverUp
    /\ socks' = [socks EXCEPT ![s].readyState = CLOSED]
    /\ connected' = FALSE
    /\ wsRef' = wsRef
    /\ timerRef' = timerRef + 1
    /\ timers' = timers \cup {timerRef + 1}
    /\ UNCHANGED <<phase, autoConnect, error, tornDown, serverUp>>
    /\ UNCHANGED feedVars
    /\ UNCHANGED subVars
    /\ UNCHANGED pageVars
    /\ UNCHANGED <<trackVars, searchVars>>

\* Variant of ws.onclose with a retry limit: after two reconnects it arms
\* no further timer
OnCloseRetryLimit(s) ==
    /\ s \in DOMAIN socks
    /\ socks[s].readyState # CLOSED
    /\ (socks[s].readyState = CONNECTING) => ~serverUp
    /\ socks' = [socks EXCEPT ![s].readyState = CLOSED]
    /\ connected' = FALSE
    /\ wsRef' = 0
    /\ IF timerRef < 2
       THEN /\ timerRef' = timerRef + 1
            /\ timers' = timers \cup {timerRef + 1}
       ELSE UNCHANGED <<timerRef, timers>>
    /\ UNCHANGED <<phase, autoConnect, error, tornDown, serverUp>>
    /\ UNCHANGED feedVars
    /\ UNCHANGED subVars
    /\ UNCHANGED pageVars
    /\ UNCHANGED <<trackVars, searchVars>>

\* ws.onclose of socket s: the connection failed, dropped, or finished the
\* closing handshake that close() started
OnClose(s) ==
    /\ s \in DOMAIN socks
    /\ socks[s].readyState # CLOSED
    /\ (socks[s].readyState = CONNECTING) => ~serverUp
    /\ socks' = [socks EXCEPT ![s].readyState = CLOSED]
    /\ connected' = FALSE
    /\ wsRef' = 0
    /\ timerRef' = timerRef + 1
    /\ timers' = timers \cup {timerRef + 1}
    /\ UNCHANGED <<phase, autoConnect, error, tornDown, serverUp>>
    /\ UNCHANGED feedVars
    /\ UNCHANGED subVars
    /\ UNCHANGED pageVars
    /\ subDue' \in {subDue, FALSE}
    /\ UNCHANGED <<page, trackingId, vehicle, noVehicleData>>
    /\ UNCHANGED searchVars

\* Variant of ws.onerror that treats the error as the end of the connection
OnErrorDisconnects(s) ==
    /\ s \in DOMAIN socks
    /\ socks[s].readyState \in {CONNECTING, OPEN, CLOSING}
    /\ ~error
    /\ error' = TRUE
    /\ connected' = FALSE
    /\ wsRef' = 0
    /\ timerRef' = timerRef + 1
    /\ timers' = timers \cup {timerRef + 1}
    /\ UNCHANGED <<phase, autoConnect, socks, tornDown, serverUp>>
    /\ UNCHANGED feedVars
    /\ UNCHANGED subVars
    /\ UNCHANGED pageVars
    /\ UNCHANGED <<trackVars, searchVars>>

\* ws.onerror of socket s
OnError(s) ==
    /\ s \in DOMAIN socks
    /\ socks[s].readyState \in {CONNECTING, OPEN, CLOSING}
    /\ ~error
    /\ error' = TRUE
    /\ UNCHANGED <<phase, autoConnect, timerRef, connected, tornDown, serverUp>>
    /\ UNCHANGED connVars
    /\ UNCHANGED feedVars
    /\ UNCHANGED subVars
    /\ UNCHANGED pageVars
    /\ UNCHANGED <<trackVars, searchVars>>

\* the reconnect timer t expires: connect()
TimerFire(t) ==
    /\ t \in timers
    /\ CanConnect([Hook EXCEPT !.timers = @ \ {t}])
    /\ SetHook(connect([Hook EXCEPT !.timers = @ \ {t}]))
    /\ UNCHANGED <<phase, autoConnect, timerRef, connected, error, tornDown,
                   serverUp>>
    /\ UNCHANGED feedVars
    /\ UNCHANGED subVars
    /\ UNCHANGED pageVars
    /\ UNCHANGED <<trackVars, searchVars>>

\* subscribeToBounds(b): send on the OPEN socket, else store as pending
subscribeToBounds(b) ==
    /\ reqs' = Append(reqs, b)
    /\ IF IsOpen(Hook)
       THEN /\ sent' = sendBounds(Hook, sent, b)
            /\ pendingBounds' = pendingBounds
            /\ latestSent' = TRUE
       ELSE /\ pendingBounds' = b
            /\ sent' = sent
            /\ latestSent' = FALSE

\* subscribeToBounds(b), called by the page that uses the hook
SubscribeToBounds(b) ==
    /\ phase = "mounted"
    /\ Len(reqs) < MaxSubs
    /\ subscribeToBounds(b)
    /\ UNCHANGED <<phase, autoConnect, timerRef, connected, error, tornDown,
                   serverUp>>
    /\ UNCHANGED connVars
    /\ UNCHANGED feedVars
    /\ UNCHANGED pageVars
    /\ UNCHANGED <<trackVars, searchVars>>

\* the bounds LiveTracking subscribes to: north, south, east, west in tenths
\* of a degree
Dublin == <<535, 532, -60, -65>>

\* LiveTracking mounts with the route parameter id; the hook's mount effect
\* runs with the default autoConnect
MountTracking(id) ==
    /\ phase = "new"
    /\ CanConnect(Hook)
    /\ phase' = "mounted"
    /\ autoConnect' = TRUE
    /\ page' = "tracking"
    /\ trackingId' = id
    /\ SetHook(connect(Hook))
    /\ UNCHANGED <<timerRef, connected, error, tornDown, serverUp>>
    /\ UNCHANGED <<subDue, vehicle, noVehicleData>>
    /\ UNCHANGED searchVars
    /\ UNCHANGED feedVars
    /\ UNCHANGED subVars
    /\ UNCHANGED pageVars

\* LiveTracking's subscribe effect, committed by a render with connected =
\* true, runs
TrackSubscribe ==
    /\ phase = "mounted"
    /\ subDue
    /\ Len(reqs) < MaxSubs
    /\ subDue' = FALSE
    /\ subscribeToBounds(Dublin)
    /\ UNCHANGED <<phase, autoConnect, timerRef, connected, error, tornDown,
                   serverUp>>
    /\ UNCHANGED <<page, trackingId, vehicle, noVehicleData>>
    /\ UNCHANGED searchVars
    /\ UNCHANGED connVars
    /\ UNCHANGED feedVars
    /\ UNCHANGED pageVars

\* a frame that reaches onVehicleUpdatesRef.current: parsed, of type
\* vehicle_updates, with a vehicles list
Delivered(f) == f.json /\ f.type = "vehicle_updates" /\ f.hasVehicles

\* what ws.onmessage does with a frame: the catch block, the callback, or
\* neither
Kind(f) ==
    IF ~f.json THEN "corrupt"
    ELSE IF Delivered(f) THEN "batch"
    ELSE "other"

TripIdsOf(b) == {b[i].trip_id : i \in DOMAIN b}

\* Last write wins, stated per key: every trip_id of batch b maps to the
\* record at its last position in b, every other key keeps its record
LastWrite(prev, b) ==
    [t \in DOMAIN prev \cup TripIdsOf(b) |->
        IF t \in TripIdsOf(b)
        THEN b[CHOOSE i \in DOMAIN b :
                  /\ b[i].trip_id = t
                  /\ \A j \in DOMAIN b : b[j].trip_id = t => j <= i]
        ELSE prev[t]]

\* Variant of the catch block that gives the connection up
catchParseErrorCloses(h) ==
    IF h.wsRef # 0
    THEN [h EXCEPT !.socks[h.wsRef].readyState = wsClose(@)]
    ELSE h

\* the catch block of ws.onmessage: console.error, nothing else
catchParseError(h) == h

\* LiveTracking's record of the tracked vehicle, built from a position
TrackedVehicle(v) ==
    [vehicleId |-> v.vehicle_id, tripId |-> v.trip_id, lat |-> v.latitude]

\* v.trip_id === targetId || v.vehicle_id === targetId
IsTarget(v, id) == v.trip_id = id \/ v.vehicle_id = id

\* Variant of find that returns the index of the last matching record
findLast(updates, id) ==
    LET hits == {i \in DOMAIN updates : IsTarget(updates[i], id)}
    IN  IF hits = {} THEN 0
        ELSE CHOOSE i \in hits : \A k \in hits : k <= i

\* updates.find(...): the index of the first matching record, 0 for
\* undefined
find(updates, id) ==
    LET hits == {i \in DOMAIN updates : IsTarget(updates[i], id)}
    IN  IF hits = {} THEN 0
        ELSE CHOOSE i \in hits : \A k \in hits : i <= k

\* LiveTracking.handleVehicleUpdates on the pair <<vehicle, noVehicleData>>:
\* nothing without a target id or without a matching record, otherwise the
\* first matching record and noVehicleData = false
trackVehicleUpdates(st, updates, id) ==
    IF id = "" THEN st
    ELSE IF find(updates, id) = 0 THEN st
    ELSE <<TrackedVehicle(updates[find(updates, id)]), FALSE>>

\* LiveTracking's GET /api/vehicles settles (the effect returns early without
\* a trackingId): the first matching record becomes the tracked vehicle; no
\* match or a failure sets noVehicleData
TrackFetchDone(ok, data) ==
    /\ phase = "mounted"
    /\ page = "tracking"
    /\ trackingId # ""
    /\ rest = "pending"
    /\ rest' = IF ok THEN "loaded" ELSE "failed"
    /\ IF ok /\ find(data, trackingId) # 0
       THEN /\ vehicle' = TrackedVehicle(data[find(data, trackingId)])
            /\ noVehicleData' = FALSE
       ELSE /\ noVehicleData' = TRUE
            /\ UNCHANGED vehicle
    /\ UNCHANGED <<page, trackingId, subDue>>
    /\ UNCHANGED <<mapReady, markers, layers, made, shown>>
    /\ UNCHANGED searchVars
    /\ UNCHANGED feedVars
    /\ UNCHANGED hookVars

\* ws.onmessage of socket s with event.data = f
OnMessage(s, f) ==
    /\ s \in DOMAIN socks
    /\ socks[s].readyState \in {OPEN, CLOSING}
    /\ nframes < MaxFrames
    /\ nframes' = nframes + 1
    /\ flog' = Append(flog, Kind(f))
    /\ IF ~f.json
       THEN UNCHANGED <<vehicleCount, lastUpdate, vehicles, latest,
                        lastBatchIds, lastTs, dirty>>
       ELSE CASE f.type = "vehicle_updates" ->
                   /\ lastUpdate' = nframes + 1
                   /\ IF f.hasVehicles
                      THEN /\ vehicleCount' = Len(f.vehicles)
                           /\ vehicles' = IF page = "tracking" THEN vehicles
                                          ELSE handleVehicleUpdates(vehicles,
                                                                    f.vehicles)
                           /\ dirty' = (dirty \/ page # "tracking")
                           /\ latest' = LastWrite(latest, f.vehicles)
                           /\ lastBatchIds' = TripIdsOf(f.vehicles)
                           /\ lastTs' = f.ts
                      ELSE UNCHANGED <<vehicleCount, vehicles, latest,
                                       lastBatchIds, lastTs, dirty>>
              [] f.type \in {"connected", "bounds_set"} ->
                   /\ vehicleCount' = f.vehicle_count
                   /\ UNCHANGED <<lastUpdate, vehicles, latest, lastBatchIds, lastTs,
                                  dirty>>
              [] OTHER -> UNCHANGED <<vehicleCount, lastUpdate, vehicles,
                                      latest, lastBatchIds, lastTs, dirty>>
    /\ UNCHANGED <<phase, autoConnect, timerRef, connected, error, tornDown,
                   serverUp>>
    /\ SetHook(IF ~f.json THEN catchParseError(Hook) ELSE Hook)
    /\ UNCHANGED subVars
    /\ UNCHANGED pageVars
    /\ IF Delivered(f) /\ page = "tracking"
       THEN /\ vehicle' = trackVehicleUpdates(<<vehicle, noVehicleData>>,
                                               f.vehicles, trackingId)[1]
            /\ noVehicleData' = trackVehicleUpdates(<<vehicle, noVehicleData>>,
                                                     f.vehicles, trackingId)[2]
            /\ UNCHANGED <<page, trackingId, subDue>>
            /\ UNCHANGED searchVars
       ELSE UNCHANGED <<trackVars, searchVars>>

\* environment: from now on the server accepts every connection attempt
ServerUp ==
    /\ ~serverUp
    /\ serverUp' = TRUE
    /\ UNCHANGED <<phase, autoConnect, timerRef, connected, error, tornDown>>
    /\ UNCHANGED connVars
    /\ UNCHANGED feedVars
    /\ UNCHANGED subVars
    /\ UNCHANGED pageVars
    /\ UNCHANGED <<trackVars, searchVars>>

\* Variant of the map initialisation whose mapReady no effect depends on
MapReadyNoEffect ==
    /\ phase = "mounted"
    /\ ~mapReady
    /\ mapReady' = TRUE
    /\ UNCHANGED <<vehicleCount, lastUpdate, vehicles, nframes, flog, latest,
                   lastBatchIds, lastTs, dirty, markers, layers, made, shown, rest>>
    /\ UNCHANGED hookVars
    /\ UNCHANGED <<trackVars, searchVars>>

\* LiveMap's map initialisation has called setMapReady(true)
MapReady ==
    /\ phase = "mounted"
    /\ ~mapReady
    /\ mapReady' = TRUE
    /\ dirty' = TRUE
    /\ UNCHANGED <<vehicleCount, lastUpdate, vehicles, nframes, flog, latest,
                   lastBatchIds, lastTs, markers, layers, made, shown, rest>>
    /\ UNCHANGED hookVars
    /\ UNCHANGED <<trackVars, searchVars>>

\* LiveMap.fetchInitialVehicles: the map built from the response's list
fetchInitialVehicles(data) == handleVehicleUpdates(<<>>, data)

\* GET /api/vehicles settles: setVehicles(vehicleMap) on success, nothing on
\* a failure
FetchDone(ok, data) ==
    /\ phase = "mounted"
    /\ page = "map"
    /\ rest = "pending"
    /\ IF ok
       THEN /\ rest' = "loaded"
            /\ vehicles' = fetchInitialVehicles(data)
            /\ dirty' = TRUE
       ELSE /\ rest' = "failed"
            /\ UNCHANGED <<vehicles, dirty>>
    /\ UNCHANGED <<vehicleCount, lastUpdate, nframes, flog, latest,
                   lastBatchIds, lastTs, mapReady, markers, layers, made,
                   shown>>
    /\ UNCHANGED hookVars
    /\ UNCHANGED <<trackVars, searchVars>>

\* Variant of the first loop that removes no marker
RemoveNone(ms) == ms

\* the first loop of the marker effect: markers whose trip_id is not a key of
\* the table are taken off the map and deleted from markersRef
RemoveStale(ms) == [t \in {k \in DOMAIN ms : k \in DOMAIN vehicles} |-> ms[t]]

\* the second loop of the marker effect: an existing marker is moved, a
\* missing one is created with the vehicle bound to its popup
UpdateOrCreate(ms, born) ==
    [t \in DOMAIN ms \cup DOMAIN vehicles |->
        IF t \notin DOMAIN vehicles THEN ms[t]
        ELSE IF t \in DOMAIN ms
        THEN [ms[t] EXCEPT !.latLng = vehicles[t].latitude]
        ELSE [born |-> born, latLng |-> vehicles[t].latitude,
              popup |-> vehicles[t].latitude]]

\* the render React commits after vehicles or mapReady changed, and the
\* marker effect that runs after it
Reconcile ==
    /\ dirty
    /\ dirty' = FALSE
    /\ shown' = vehicles
    /\ IF ~mapReady
       THEN UNCHANGED <<markers, layers, made>>
       ELSE LET kept == RemoveStale(markers)
                removed == DOMAIN markers \ DOMAIN kept
                created == DOMAIN vehicles \ DOMAIN kept
            IN  /\ made' = made + Cardinality(created)
                /\ markers' = UpdateOrCreate(kept, made')
                /\ layers' = [t \in TripIds |->
                      layers[t] - (IF t \in removed THEN 1 ELSE 0)
                                + (IF t \in created THEN 1 ELSE 0)]
    /\ UNCHANGED <<vehicleCount, lastUpdate, vehicles, nframes, flog, latest,
                   lastBatchIds, lastTs, mapReady, rest>>
    /\ UNCHANGED hookVars
    /\ UNCHANGED <<trackVars, searchVars>>

\* the connection lifecycle and the viewport subscriptions
Next ==
    \/ \E ac \in BOOLEAN : Mount(ac)
    \/ \E ac \in BOOLEAN : Rerun(ac)
    \/ Unmount
    \/ \E s \in DOMAIN socks : OnOpen(s)
    \/ \E s \in DOMAIN socks : OnClose(s)
    \/ \E t \in timers : TimerFire(t)
    \/ \E b \in MapBounds : SubscribeToBounds(b)

Spec == Init /\ [][Next]_vars

\* the connection lifecycle and the inbound events of the sockets
FeedNext ==
    \/ \E ac \in BOOLEAN : Mount(ac)
    \/ \E ac \in BOOLEAN : Rerun(ac)
    \/ Unmount
    \/ \E s \in DOMAIN socks : OnOpen(s)
    \/ \E s \in DOMAIN socks : OnClose(s)
    \/ \E s \in DOMAIN socks : OnError(s)
    \/ \E t \in timers : TimerFire(t)
    \/ \E s \in DOMAIN socks, f \in Frames :
          nframes < MaxFeedFrames /\ OnMessage(s, f)

FeedSpec == Init /\ [][FeedNext]_vars

\* one mount of the hook with transport errors: the connection chain, the
\* viewport subscriptions and the error events
ErrorNext ==
    \/ \E ac \in BOOLEAN : Mount(ac)
    \/ Unmount
    \/ \E s \in DOMAIN socks : OnOpen(s)
    \/ \E s \in DOMAIN socks : OnClose(s)
    \/ \E s \in DOMAIN socks : OnError(s)
    \/ \E t \in timers : TimerFire(t)
    \/ \E b \in MapBounds : SubscribeToBounds(b)

ErrorSpec == Init /\ [][ErrorNext]_vars

\* the live map page: one connection, its frames, the REST load and the
\* marker effect
TableNext ==
    \/ Mount(TRUE)
    \/ \E s \in DOMAIN socks : OnOpen(s)
    \/ \E s \in DOMAIN socks, f \in Frames :
          nframes < MaxTableFrames /\ OnMessage(s, f)
    \/ MapReady
    \/ \E ok \in BOOLEAN, data \in Batches : FetchDone(ok, data)
    \/ Reconcile

TableSpec == Init /\ [][TableNext]_vars

\* the frames of one connection and the renders between them, before the
\* map is ready and the REST load completes
FrameNext ==
    \/ Mount(TRUE)
    \/ \E s \in DOMAIN socks : OnOpen(s)
    \/ \E s \in DOMAIN socks, f \in Frames : OnMessage(s, f)
    \/ Reconcile

FrameSpec == Init /\ [][FrameNext]_vars

\* the live map page when React runs every effect it has scheduled
TableFairSpec == TableSpec /\ WF_vars(Reconcile)

\* ---- SearchInput ----

\* the content of the box: nothing, one character, two, three, a stop's name
Queries == {"", "d", "du", "dub", "dublin"}

\* the stop the search returns; selecting it puts its name in the box
Stop == [stopId |-> "8220", stopName |-> "dublin"]

\* what stopsApi.search may resolve with
Responses == {<<>>, <<Stop>>}

\* the debounce effect for a new query q: the cleanup of the run before
\* clears the pending timer; a query shorter than 2 clears the results and
\* closes the dropdown, any other one starts the 300 ms timer
searchEffect(q) ==
    IF Len(q) < 2
    THEN /\ results' = <<>>
         /\ isOpen' = FALSE
         /\ debounce' = NoTimer
    ELSE /\ debounce' = q
         /\ UNCHANGED <<results, isOpen>>

\* onChange: setQuery(e.target.value), the render and the effect of [query]
SetQuery(q) ==
    /\ q # query
    /\ query' = q
    /\ searchEffect(q)
    /\ UNCHANGED <<loading, inflight>>
    /\ UNCHANGED <<feedVars, pageVars, hookVars, trackVars>>

\* the debounce timer fires: setLoading(true) and stopsApi.search(query)
\* with the query the effect run captured
DebounceFire ==
    /\ debounce # NoTimer
    /\ debounce' = NoTimer
    /\ loading' = TRUE
    /\ inflight' = inflight \cup {debounce}
    /\ UNCHANGED <<query, results, isOpen>>
    /\ UNCHANGED <<feedVars, pageVars, hookVars, trackVars>>

\* await stopsApi.search(query) resolves: setResults(stops), setIsOpen(true),
\* and setLoading(false) in the finally block
SearchResolve(q, stops) ==
    /\ q \in inflight
    /\ inflight' = inflight \ {q}
    /\ results' = stops
    /\ isOpen' = TRUE
    /\ loading' = FALSE
    /\ UNCHANGED <<query, debounce>>
    /\ UNCHANGED <<feedVars, pageVars, hookVars, trackVars>>

\* the search rejects: setResults([]) in the catch block, then the finally
SearchReject(q) ==
    /\ q \in inflight
    /\ inflight' = inflight \ {q}
    /\ results' = <<>>
    /\ loading' = FALSE
    /\ UNCHANGED <<query, isOpen, debounce>>
    /\ UNCHANGED <<feedVars, pageVars, hookVars, trackVars>>

\* handleSelect on a row of the open dropdown: setQuery(stop.stopName) and
\* setIsOpen(false); the effect runs when the query changed
handleSelect(i) ==
    /\ isOpen
    /\ i \in DOMAIN results
    /\ query' = results[i].stopName
    /\ isOpen' = FALSE
    /\ IF results[i].stopName # query
       THEN debounce' = results[i].stopName
       ELSE UNCHANGED debounce
    /\ UNCHANGED <<results, loading, inflight>>
    /\ UNCHANGED <<feedVars, pageVars, hookVars, trackVars>>

\* mousedown outside the container: setIsOpen(false)
ClickOutside ==
    /\ isOpen
    /\ isOpen' = FALSE
    /\ UNCHANGED <<query, results, loading, debounce, inflight>>
    /\ UNCHANGED <<feedVars, pageVars, hookVars, trackVars>>

\* onFocus: results.length > 0 && setIsOpen(true)
Focus ==
    /\ ~isOpen
    /\ results # <<>>
    /\ isOpen' = TRUE
    /\ UNCHANGED <<query, results, loading, debounce, inflight>>
    /\ UNCHANGED <<feedVars, pageVars, hookVars, trackVars>>

SearchNext ==
    \/ \E q \in Queries : SetQuery(q)
    \/ DebounceFire
    \/ \E q \in Queries : \E stops \in Responses : SearchResolve(q, stops)
    \/ \E q \in Queries : SearchReject(q)
    \/ \E i \in DOMAIN results : handleSelect(i)
    \/ ClickOutside
    \/ Focus

SearchSpec == Init /\ [][SearchNext]_vars

\* route parameters of LiveTracking: a trip_id, a vehicle_id, none
TrackingIds == {"T2", "V1", ""}

\* the LiveTracking page: one mount of the hook, its connection chain and
\* the page's subscribe effect
TrackNext ==
    \/ \E id \in TrackingIds : MountTracking(id)
    \/ \E s \in DOMAIN socks : OnOpen(s)
    \/ \E s \in DOMAIN socks : OnClose(s)
    \/ \E t \in timers : TimerFire(t)
    \/ TrackSubscribe

TrackSpec == Init /\ [][TrackNext]_vars

\* the LiveTracking page's data: the initial REST load and the frames of the
\* first connection
TrackFeedNext ==
    \/ \E id \in TrackingIds : MountTracking(id)
    \/ \E s \in DOMAIN socks : OnOpen(s)
    \/ \E s \in DOMAIN socks : \E f \in Frames :
          nframes < MaxFeedFrames /\ OnMessage(s, f)
    \/ \E ok \in BOOLEAN : \E data \in Batches : TrackFetchDone(ok, data)

TrackFeedSpec == Init /\ [][TrackFeedNext]_vars

\* the connection lifecycle under a server that may come up for good; the
\* browser fires every pending timer and settles every connection attempt
LiveNext ==
    \/ \E ac \in BOOLEAN : Mount(ac)
    \/ \E ac \in BOOLEAN : Rerun(ac)
    \/ Unmount
    \/ \E s \in DOMAIN socks : OnOpen(s)
    \/ \E s \in DOMAIN socks : OnClose(s)
    \/ \E t \in timers : TimerFire(t)
    \/ ServerUp

LiveSpec ==
    /\ Init
    /\ [][LiveNext]_vars
    /\ WF_vars(\E t \in timers : TimerFire(t))
    /\ WF_vars(\E s \in DOMAIN socks : OnOpen(s))

\* ------------------------------------------------------------- claims
Live(s) == socks[s].readyState \in {CONNECTING, OPEN}
LiveSockets == {s \in DOMAIN socks : Live(s)}
ClosedSockets == {s \in DOMAIN socks : socks[s].readyState = CLOSED}
\* sockets created by a timer expiry, while the effect has run once only
ReconnectAttempts ==
    Len(socks) - (IF phase # "new" /\ autoConnect THEN 1 ELSE 0)
LatestReq == reqs[Len(reqs)]
SubscribeMsg(s, b) ==
    [sock |-> s, msg |-> [type |-> "subscribe_bounds", bounds |-> b]]

\* C1: after the final teardown (the unmount cleanup) no step arms a
\* reconnect timer and no step creates a connection.
C1_TeardownIsFinal ==
    [][phase = "unmounted" =>
          (Len(socks') = Len(socks) /\ timers' \subseteq timers)]_vars

\* C2: every close event sets connected to false, nulls the handle and arms
\* exactly one new timer, which becomes the tracked one; every expiry of a
\* timer runs connect(), which creates exactly one socket unless the current
\* one is open; and while the effect has run once only, the close events so
\* far equal the reconnect attempts made plus the timers still pending.
C2_CloseArmsOneReconnect ==
    /\ [][\A s \in DOMAIN socks : OnClose(s) =>
              /\ connected' = FALSE
              /\ wsRef' = 0
              /\ timerRef' \notin timers
              /\ timers' = timers \cup {timerRef'}
              /\ Len(socks') = Len(socks)]_vars
    /\ [][\A t \in timers : TimerFire(t) =>
              \/ IsOpen(Hook) /\ socks' = socks /\ wsRef' = wsRef
              \/ /\ ~IsOpen(Hook)
                 /\ Len(socks') = Len(socks) + 1
                 /\ wsRef' = Len(socks')
                 /\ socks'[wsRef'].readyState = CONNECTING]_vars
    /\ [](~tornDown =>
             Cardinality(ClosedSockets) = ReconnectAttempts + Cardinality(timers))

C2_Witness ==
    /\ ~tornDown
    /\ Cardinality(ClosedSockets) >= 2
    /\ ReconnectAttempts = Cardinality(ClosedSockets)
    /\ timers = {}

\* C3: while the hook is mounted with autoConnect and never torn down, a
\* state without a handle is followed by a new connection attempt (within
\* the socket bound), and once the server accepts connections for good the
\* connected flag becomes true.
C3_ReconnectNeverGivesUp ==
    /\ \A n \in 0..(MaxSockets - 1) :
          (phase = "mounted" /\ autoConnect /\ ~tornDown /\ wsRef = 0
              /\ Len(socks) = n)
            ~> (tornDown \/ Len(socks) > n)
    /\ (serverUp /\ phase = "mounted" /\ autoConnect /\ ~tornDown
            /\ Len(socks) < MaxSockets)
          ~> (connected \/ tornDown)

C3_Witness ==
    /\ ~tornDown
    /\ serverUp
    /\ connected
    /\ IsOpen(Hook)
    /\ Cardinality(ClosedSockets) >= 2

\* C4: at most one socket is connecting or open at any time.
C4_OneLiveHandle == Cardinality(LiveSockets) <= 1

\* C5: a message or close event of a socket older than the newest one changes
\* neither connected, the handle, the timers, the vehicle count, the last
\* update nor the table.
C5_StaleCallbacksDiscarded ==
    [][\A s \in DOMAIN socks :
          (s < Len(socks) /\ (OnClose(s) \/ \E f \in Frames : OnMessage(s, f)))
            => UNCHANGED <<connected, wsRef, timers, timerRef, vehicleCount,
                           lastUpdate, vehicles>>]_vars

\* C6: an open event that finds bounds b pending sends exactly one
\* subscribe_bounds message, carrying b, on the socket that opened, and
\* empties the slot.
C6_PendingFlushedOnOpen ==
    [][\A s \in DOMAIN socks :
          (OnOpen(s) /\ pendingBounds # null)
            => /\ sent' = Append(sent, SubscribeMsg(s, pendingBounds))
               /\ pendingBounds' = null]_vars

\* C7: the latest request has been sent, or it is still in the pending slot.
C7_LatestRequestKept ==
    (reqs # <<>> /\ ~latestSent) => pendingBounds = LatestReq

\* C8: while the effect has run once only, whenever the current socket is
\* open and the latest request has been sent, it has been sent on the current
\* socket.
C8_ResubscribedAfterReconnect ==
    (~tornDown /\ IsOpen(Hook) /\ reqs # <<>> /\ latestSent)
        => \E i \in DOMAIN sent : sent[i] = SubscribeMsg(wsRef, LatestReq)

C10_ConnectNoOpWhenConnecting ==
    [][\A t \in timers :
          (TimerFire(t) /\ wsRef # 0 /\ Live(wsRef))
            => (socks' = socks /\ wsRef' = wsRef /\ connected' = connected
                  /\ timerRef' = timerRef)]_vars

\* a step of ws.onmessage, told by the frame it logged
FrameStep(kind) ==
    /\ Len(flog') = Len(flog) + 1
    /\ flog'[Len(flog')] = kind

\* the table after a batch: the batch's trip_ids joined the keys, each of them
\* maps to the record pushed last, every other entry is as before
BatchApplied ==
    /\ DOMAIN vehicles' = DOMAIN vehicles \cup lastBatchIds'
    /\ \A t \in lastBatchIds' : vehicles'[t] = latest'[t]
    /\ \A t \in DOMAIN vehicles \ lastBatchIds' : vehicles'[t] = vehicles[t]

\* C11: a frame that fails to parse is skipped and the connection stays as it
\* was: it does not close the socket, change connected or arm a reconnect,
\* it leaves the table alone, and the valid batches around it are applied in
\* the order they arrived
C11_CorruptFrameSkipped ==
    [][/\ FrameStep("corrupt") =>
            UNCHANGED <<socks, wsRef, connected, timers, timerRef, vehicles,
                        vehicleCount, lastUpdate>>
       /\ FrameStep("batch") => BatchApplied]_vars

\* two batches with a corrupt frame between them, on one connection
C11_Witness ==
    /\ flog = <<"batch", "corrupt", "batch">>
    /\ Len(socks) = 1
    /\ connected
    /\ socks[1].readyState = OPEN
    /\ timers = {}
    /\ lastBatchIds = {"T2"}
    /\ DOMAIN vehicles = {"T1", "T2"}
\* C12: the table is last-write-wins: built from the empty table by pushed
\* batches only, its keys are the trip_ids seen in any batch and each key
\* maps to the whole record pushed last for it, the later one of a batch
\* that names a trip twice
C12_LastWriteWins == rest # "loaded" => vehicles = latest

\* a batch naming T1 twice, applied after a batch that brought T2
C12_Witness ==
    /\ rest # "loaded"
    /\ flog = <<"batch", "batch">>
    /\ lastBatchIds = {"T1"}
    /\ vehicleCount = 2
    /\ DOMAIN vehicles = {"T1", "T2"}
    /\ vehicles["T1"].latitude = 2
\* C13: a vehicle that stops reporting is evicted: when a trip that came in a
\* batch is on the map and no batch from then on names it, its marker is
\* eventually removed
C13_StaleVehicleEvicted ==
    \A t \in TripIds :
        (t \in DOMAIN latest /\ t \in DOMAIN markers
            /\ [](t \notin lastBatchIds))
        ~> (t \notin DOMAIN markers)
\* a run of the marker effect on a ready map
ReconcileStep == dirty /\ ~dirty' /\ mapReady

\* C14: the marker effect applies the exact delta between the rendered ids R
\* and the table T: it removes the markers of R \ keys(T), creates markers
\* for keys(T) \ R, moves the markers of R \cap keys(T) in place, and leaves
\* exactly one marker on the map for each key of T and none for other ids
C14_ExactDelta ==
    [][ReconcileStep =>
        /\ \A t \in DOMAIN markers \ DOMAIN vehicles :
              t \notin DOMAIN markers' /\ layers'[t] = layers[t] - 1
        /\ \A t \in DOMAIN vehicles \ DOMAIN markers :
              /\ t \in DOMAIN markers'
              /\ markers'[t].born > made
              /\ markers'[t].latLng = vehicles[t].latitude
              /\ layers'[t] = layers[t] + 1
        /\ \A t \in DOMAIN markers \cap DOMAIN vehicles :
              /\ t \in DOMAIN markers'
              /\ markers'[t].born = markers[t].born
              /\ markers'[t].popup = markers[t].popup
              /\ markers'[t].latLng = vehicles[t].latitude
              /\ layers'[t] = layers[t]
        /\ DOMAIN markers' = DOMAIN vehicles
        /\ \A t \in TripIds :
              layers'[t] = IF t \in DOMAIN vehicles THEN 1 ELSE 0]_vars

\* two markers were created, T1's was removed again and T2's was moved in
\* place away from where it was created
C14_Witness ==
    /\ mapReady /\ ~dirty
    /\ made = 2
    /\ DOMAIN markers = {"T2"}
    /\ DOMAIN vehicles = {"T2"}
    /\ markers["T2"].popup # markers["T2"].latLng
    /\ layers = [t \in TripIds |-> IF t = "T2" THEN 1 ELSE 0]
\* the component unmounts: the last run of the cleanup
TeardownStep == phase = "mounted" /\ phase' = "unmounted"

\* C15: a teardown that finds the hook disconnected with a reconnect timer
\* pending cancels it: no timer is left whose expiry would call connect()
C15_TeardownCancelsTimer ==
    [][TeardownStep /\ wsRef = 0 /\ ~connected /\ timers # {}
          => timers' = {}]_vars
\* C16: teardown clears all owned state: right after it no reconnect timer is
\* pending, no socket is held, connected is false, the pending bounds slot is
\* empty and the vehicle table is empty
C16_TeardownClearsState ==
    [][TeardownStep =>
          /\ timers' = {}
          /\ wsRef' = 0
          /\ ~connected'
          /\ pendingBounds' = null
          /\ vehicles' = <<>>]_vars
\* a frame that is not a well-formed message of one of the four known types
Rejected(f) ==
    \/ ~f.json
    \/ f.type \notin {"vehicle_updates", "connected", "bounds_set", "pong"}
    \/ f.type = "vehicle_updates" /\ ~f.hasVehicles

\* C17: a rejected frame has no effect: it leaves the vehicle count, the
\* last-update timestamp, the table and the connection state unchanged and
\* the update callback does not run
C17_RejectedFrameNoEffect ==
    [][\A s \in DOMAIN socks, f \in {g \in Frames : Rejected(g)} :
          OnMessage(s, f) =>
              UNCHANGED <<vehicleCount, lastUpdate, vehicles, dirty,
                          connected, socks, wsRef>>]_vars
\* C18: while the hook is connected no reconnect timer is pending
C18_NoTimerWhileConnected == connected => timers = {}
\* a step of ws.onerror: the only step that raises the error signal
ErrorStep == ~error /\ error'

\* a step of some socket's ws.onclose
CloseStep ==
    \E s \in DOMAIN socks :
        socks[s].readyState # CLOSED /\ socks'[s].readyState = CLOSED

\* C19: a transport error only raises the error signal: connected, the
\* socket handle, the sockets, the pending bounds and the reconnect timers
\* stay as they were; connected turns false only in a close event
C19_ErrorOnlySignals ==
    [][/\ ErrorStep =>
            UNCHANGED <<connected, wsRef, socks, pendingBounds, timers,
                        timerRef, sent>>
       /\ (connected /\ ~connected') => CloseStep]_vars

\* an error on the open socket while bounds were sent: still connected, the
\* handle kept, no timer armed
C19_Witness ==
    /\ error /\ connected
    /\ Len(socks) = 1 /\ wsRef = 1 /\ socks[1].readyState = OPEN
    /\ timers = {}
    /\ Len(sent) = 1
\* C20: the marker effect follows every change of the table and of mapReady:
\* when no run of it is outstanding and the map is ready, the rendered ids
\* are the keys of the table
C20_RenderedFollowsTable ==
    (mapReady /\ ~dirty) => DOMAIN markers = DOMAIN vehicles

\* two batches, each followed by a run of the effect that created a marker
C20_Witness ==
    /\ mapReady /\ ~dirty
    /\ flog = <<"batch", "batch">>
    /\ DOMAIN vehicles = {"T1", "T2"}
    /\ DOMAIN markers = {"T1", "T2"}
    /\ markers["T1"].born # markers["T2"].born
\* C21: the vehicle count the hook exposes is the size of the vehicle table,
\* whatever connected, bounds_set and vehicle_updates frames have arrived
C21_CountIsTableSize ==
    rest # "loaded" => vehicleCount = Cardinality(DOMAIN vehicles)
\* the GET /api/vehicles response arrives and replaces the table
RestLoadStep == rest = "pending" /\ rest' = "loaded"

\* C22: a trip_id once in the vehicle table stays in it: no step removes a
\* key
C22_TableOnlyGrows ==
    [][DOMAIN vehicles \subseteq DOMAIN vehicles']_vars

\* C22 (amended): no batch removes a key of the vehicle table; a key is
\* removed only in the step in which the initial REST load completes, which
\* replaces the table by the response
C22_OnlyRestLoadRemoves ==
    [][\/ DOMAIN vehicles \subseteq DOMAIN vehicles'
       \/ RestLoadStep]_vars

\* two batches were applied and the REST load has dropped T1, which a batch
\* had put in the table
C22_Witness ==
    /\ rest = "loaded"
    /\ flog = <<"batch", "batch">>
    /\ "T1" \in DOMAIN latest
    /\ DOMAIN vehicles = {"T2"}
\* C23: the pending bounds slot is cleared only by sending it: a step that
\* empties a slot holding b appends a subscribe_bounds message with b to the
\* messages sent
C23_PendingClearedBySend ==
    [][(pendingBounds # null /\ pendingBounds' = null) =>
          /\ Len(sent') = Len(sent) + 1
          /\ sent'[Len(sent')].msg =
                [type |-> "subscribe_bounds", bounds |-> pendingBounds]]_vars
\* C24: batches are applied in arrival order, also between renders: a batch
\* that arrives while the render of an earlier one is outstanding is applied
\* on top of what the earlier frames left, so its records replace older
\* ones and every other entry stays
C24_ArrivalOrder ==
    [][(FrameStep("batch") /\ dirty) =>
          /\ \A t \in DOMAIN vehicles \ lastBatchIds' :
                t \in DOMAIN vehicles' /\ vehicles'[t] = vehicles[t]
          /\ \A t \in lastBatchIds' :
                t \in DOMAIN vehicles' /\ vehicles'[t] = latest'[t]]_vars

\* two batches arrived before any render; T1 came with the first only
C24_Witness ==
    /\ flog = <<"batch", "batch">>
    /\ dirty
    /\ shown = <<>>
    /\ lastBatchIds = {"T2"}
    /\ DOMAIN vehicles = {"T1", "T2"}
\* C25: a batch older than the one applied last is rejected: a
\* vehicle_updates frame whose ts is smaller than the ts of the last batch
\* applied leaves the vehicle table unchanged
C25_StaleBatchRejected ==
    [][\A s \in DOMAIN socks, b \in Batches, ts \in Stamps :
          (ts < lastTs /\ OnMessage(s, VehicleUpdates(b, ts)))
              => vehicles' = vehicles]_vars
\* C26: the connected flag agrees with the handle: connected is true exactly
\* when wsRef holds a socket and that socket is OPEN
C26_ConnectedIffOpenHandle == connected <=> IsOpen(Hook)

\* C27: at most one reconnect timer is pending, and it is the one
\* reconnectTimeoutRef holds
C27_OneTrackedTimer == timers \subseteq {timerRef}
\* the subscribe_bounds messages sent on socket s
SentOn(s) == {i \in DOMAIN sent : sent[i].sock = s}

\* C28: on the LiveTracking page every connection gets exactly one
\* subscribe_bounds message with the Dublin bounds: never two on one socket,
\* and one on the open socket once the subscribe effect has run
C28_OneSubscribePerConnection ==
    page = "tracking" =>
        /\ \A s \in DOMAIN socks : Cardinality(SentOn(s)) <= 1
        /\ \A i \in DOMAIN sent : sent[i].msg.bounds = Dublin
        /\ (connected /\ IsOpen(Hook) /\ ~subDue)
              => Cardinality(SentOn(wsRef)) = 1

\* C29: on the LiveTracking page a delivered batch with no record whose
\* trip_id or vehicle_id equals the tracked id leaves the tracked vehicle and
\* the no-data flag unchanged; a batch that contains one replaces the tracked
\* vehicle with the first matching record and clears the no-data flag
C29_BatchFilter ==
    [][(page = "tracking" /\ FrameStep("batch")) =>
          \A s \in DOMAIN socks, b \in Batches :
             (/\ lastBatchIds' = TripIdsOf(b)
              /\ OnMessage(s, VehicleUpdates(b, lastTs')))
                 => IF \E i \in DOMAIN b : IsTarget(b[i], trackingId)
                    THEN \E i \in DOMAIN b :
                            /\ IsTarget(b[i], trackingId)
                            /\ \A k \in 1..(i - 1) :
                                  ~IsTarget(b[k], trackingId)
                            /\ vehicle' = TrackedVehicle(b[i])
                            /\ noVehicleData' = FALSE
                    ELSE UNCHANGED <<vehicle, noVehicleData>>]_vars

\* the REST load failed, which sets the no-data flag and no vehicle; then a
\* batch with two records of the tracked vehicle_id set the tracked vehicle
\* and cleared the flag
C29_Witness ==
    /\ page = "tracking"
    /\ trackingId = "V1"
    /\ rest = "failed"
    /\ vehicle # null
    /\ ~noVehicleData
    /\ lastBatchIds = {"T1", "T2"}

\* C30: a search response for an earlier query never overwrites the results
\* or reopens the dropdown: a step that settles a search whose query is no
\* longer the content of the box leaves results and isOpen unchanged
C30_StaleResponseIgnored ==
    [][\A q \in inflight :
          (q # query /\ inflight' = inflight \ {q} /\ query' = query)
              => (results' = results /\ isOpen' = isOpen)]_vars
====
